---- MODULE Spec2Model ----
(***************************************************************************)
(* Expense tracker (SvelteKit + Appwrite): the session store, the layout,  *)
(* the auth screen, the expense store and the dashboard, as a state        *)
(* machine over the remote service's state, the shared stores, the         *)
(* components' local state and the remote calls in flight.                 *)
(*                                                                         *)
(* Every handler is cut at its awaits: one action starts it up to its      *)
(* first remote call, one action resumes it when that call's response      *)
(* arrives and runs it to the next await or to its end.  The remote        *)
(* service answers the calls in flight in any order.                       *)
(***************************************************************************)
EXTENDS Integers, Sequences, FiniteSets, TLC

VARIABLES
    authModule,   \* which module '$lib/stores/auth' is: "auth.ts" or "part_002"
    client,       \* who drives the run: the application's components ("app"), or a
                  \* caller of the stores' exported functions, which the components
                  \* of src/routes never call ("store")
    accounts,     \* remote: email -> password of the registered accounts
    session,      \* remote: the user of this browser's session, or None
    user,         \* the shared user store (stores/auth: user)
    path,         \* $page.url.pathname
    layoutPc,     \* the layout's onMount: "init", "awaiting", "done"
    authPage,     \* routes/auth/+page.svelte: isLogin, loading, error
    dashDraft,    \* which draft of the dashboard runs: "page" (routes/+page.svelte)
                  \* or "layout" (the draft kept in routes/+layout.svelte)
    dash,         \* the dashboard component's local state
    expenses,     \* the shared list of the expense store (stores/expenses: expenses)
    docs,         \* remote: the documents of the collection, in creation order
    nextId,       \* remote: the number of documents created so far, plus one
    calls,        \* the remote calls in flight, each with its continuation
    now,          \* the time new Date() reads next
    ev            \* what the last step did (handler, outcome, goto, request)

vars == <<authModule, client, accounts, session, user, path, layoutPc, authPage,
          dashDraft, dash, expenses, docs, nextId, calls, now, ev>>

---------------------------------------------------------------------------
(* Values *)

None == "null"
Undefined == "undefined"

Emails == {"a@x", "b@x"}
Passwords == {"pw1", "pw2"}

\* how many remote calls of the session flow (layout, auth screen, login,
\* register) may be in flight at once
MaxInFlight == 2

\* how many remote calls of the expense flow (dashboard, expense store) may be
\* in flight at once
MaxPending == 1

\* how many calls a client that does not await the store's functions one by
\* one has in flight at once
MaxOverlap == 2

\* how many documents the collection gets created in a run
MaxDocs == 1

\* the times of a day
DayTicks == 8

\* the day of the week of the day of time 0: Wednesday
EpochWeekday == 3

\* the significant bits of an amount (a double has 53)
MantissaBits == 11

\* the most records of a collection whose statistics are computed
MaxStatDocs == 3

\* the latest time at which a handler that reads the clock is started
MaxTime == 2

Falsy(v) == v \in {None, Undefined}

StartsWithAuth(p) == p = "/auth"

NoCred == [email |-> None, password |-> None]

\* the identifiers the service assigns ($id), in order of creation
DocIds == <<"d1", "d2", "d3", "d4", "d5", "d6">>

\* no time: the value of a date attribute that was never written
NoTime == 0

\* the time at page load
FirstTime == 1

\* what new Date() reads
ClockReads == {now}

\* the clock after it read t: the next reading is later; a handler that was
\* started in time and reads the clock after MaxTime reads the same time again
ClockAfter(t) == IF t <= MaxTime THEN t + 1 ELSE t

\* a handler that reads the clock is started while the clock is not after
\* MaxTime
ClockFits == now <= MaxTime

\* the fields of a document the application writes
NoData == [userId |-> None, amount |-> 0, category |-> None, description |-> None,
           date |-> NoTime, createdAt |-> NoTime, updatedAt |-> NoTime]

\* the payload of a document request: the fields it carries and their values
Payload(fields, values) == [fields |-> fields, values |-> values]

NoPayload == Payload({}, NoData)

\* the request a handler has had accepted before the call it awaits now: its
\* operation, document, data and the time it was issued (kept for the record;
\* no handler reads it)
NoSaved == [op |-> None, id |-> None, data |-> NoPayload, at |-> NoTime]

Saved(c, t) == [op |-> c.op, id |-> c.id, data |-> c.data, at |-> t]

\* a remote call in flight: k is the await it is made at, st its state ("sent",
\* then "ok" once the service has applied it), res the service's answer
Request(k, op, cred, id, data, userId) ==
    [k |-> k, op |-> op, cred |-> cred, id |-> id, data |-> data, userId |-> userId,
     perms |-> None, st |-> "sent", res |-> None, saved |-> NoSaved]

\* request c, issued after the handler had request s accepted
Following(c, s) == [c EXCEPT !.saved = s]

\* request c with the permissions argument [Permission.read(Role.user(u)),
\* Permission.update(Role.user(u)), Permission.delete(Role.user(u))]
WithPermissions(c, u) == [c EXCEPT !.perms = u]

Call(k, op, cred) == Request(k, op, cred, None, NoPayload, None)

DocCall(k, op, id, data) == Request(k, op, NoCred, id, data, None)

Remove(s, i) == SubSeq(s, 1, i - 1) \o SubSeq(s, i + 1, Len(s))

\* h: the handler; k: the await it resumed from ("start": it was called);
\* st: the answer it resumed with; end: "pending" (it awaits again), "resolved",
\* "caught" (it handled the failure) or "threw" (it rejected to its caller);
\* goto: the navigation it requested; ret: what initAuth returned; req: the
\* remote call it issued; cred: the credentials the handler runs with
Event(h, k, st, end, goto, ret, req, cred) ==
    [h |-> h, k |-> k, st |-> st, end |-> end, goto |-> goto, ret |-> ret,
     req |-> req, cred |-> cred]

NoEvent == Event("none", "none", "none", "none", "none", None, "none", NoCred)

\* a step that runs no handler with an await: the user interface's, the
\* remote service's
UiEvent == NoEvent

RemoteEvent == NoEvent

---------------------------------------------------------------------------
(* Component state *)

AuthPageInit ==
    [email |-> "", password |-> "", isLogin |-> TRUE, loading |-> FALSE, error |-> None]

\* null, where a document is expected
NoDoc == [sid |-> None, userId |-> None, amount |-> 0, category |-> None,
          description |-> None, date |-> NoTime, createdAt |-> NoTime,
          updatedAt |-> NoTime, perms |-> None, screatedAt |-> NoTime]

Truthy(doc) == doc.sid # None

NoStats == [total |-> 0, thisMonth |-> 0, thisWeek |-> 0]

DashInit ==
    [mounted |-> FALSE, expenses |-> <<>>, loading |-> TRUE, error |-> None,
     stats |-> NoStats, showForm |-> FALSE, editingExpense |-> NoDoc,
     currentAmount |-> "", currentDescription |-> "", currentCategory |-> "other"]

\* the awaits of the dashboard's handlers
DashFetchAwaits == {"dash.fetchExpenses", "dash.submit.fetch", "dash.delete.fetch"}

DashSubmitAwaits == {"dash.submit.get", "dash.submit.create", "dash.submit.update"}

DashAwaits == DashFetchAwaits \cup DashSubmitAwaits \cup {"dash.delete.doc"}

IsDashCall(c) == c.k \in DashAwaits

\* the awaits of the expense store's functions
StoreAwaits == {"store.fetch", "store.add", "store.update", "store.delete"}

IsExpenseCall(c) == c.k \in DashAwaits \cup StoreAwaits

\* whether one more call of the session flow / the expense flow may be issued
SessionCallFits == Len(SelectSeq(calls, LAMBDA c : ~IsExpenseCall(c))) < MaxInFlight

ExpenseCallFits ==
    Len(SelectSeq(calls, IsExpenseCall))
        < (IF client = "store.overlapping" THEN MaxOverlap ELSE MaxPending)

\* goto(target): the route changes; the component of the route left is destroyed
\* and the one of the route entered is created afresh
GotoPath(g) == IF g = "none" THEN path ELSE g

DashAfterGoto(g) == IF g = "/auth" /\ path = "/" THEN DashInit ELSE dash

AuthPageAfterGoto(g, page) == IF g = "/auth" /\ path = "/" THEN AuthPageInit ELSE page

CallsAfterGoto(cs, g) ==
    IF g = "/auth" /\ path = "/" THEN SelectSeq(cs, LAMBDA c : ~IsDashCall(c)) ELSE cs

---------------------------------------------------------------------------
(* The remote service (Appwrite), as the application consumes it *)

\* the documents of the collection with identifier id (at most one)
DocIndex(id) == {j \in DOMAIN docs : docs[j].sid = id}

Reverse(q) == [j \in 1..Len(q) |-> q[Len(q) + 1 - j]]

\* the user a document made by request c of user creator is granted to: the
\* one named in the permissions argument; without the argument the permissions
\* are set for the creator
GrantedTo(c, creator) == IF c.perms # None THEN c.perms ELSE creator

\* the document a create request makes, granted to p: the service assigns $id
\* and $createdAt (screatedAt), the time of the creation
NewDocument(c, p) ==
    [f \in DOMAIN NoDoc |->
        CASE f = "sid" -> DocIds[nextId]
          [] f = "perms" -> p
          [] f = "screatedAt" -> now
          [] OTHER -> IF f \in c.data.fields THEN c.data.values[f] ELSE NoData[f]]

\* a collection whose read permission is granted to every user
ReadableByAll(d) == TRUE

\* whether the signed-in user may read, update and delete document d: the
\* collection has document security and grants only create at its own level
Readable(d) == d.perms # None /\ d.perms = session

\* the document an update request leaves: the fields of the payload replace
\* the stored ones
UpdatedDocument(d, data) ==
    [f \in DOMAIN d |-> IF f \in data.fields THEN data.values[f] ELSE d[f]]

\* the answer to listDocuments, of the documents the user may read: with
\* Query.equal('userId', u) the documents of u in stored order, with
\* Query.orderDesc('$createdAt') all of them, newest first
ListDocuments(c) ==
    IF c.userId # None
    THEN SelectSeq(docs, LAMBDA d : Readable(d) /\ d.userId = c.userId)
    ELSE Reverse(SelectSeq(docs, LAMBDA d : Readable(d)))

\* whether the service accepts a request in its current state
RemoteAccepts(c) ==
    CASE c.op = "account.get" -> session # None
      [] c.op = "account.createEmailPasswordSession" ->
            accounts[c.cred.email] = c.cred.password
      [] c.op = "account.create" -> accounts[c.cred.email] = None
      [] c.op = "account.deleteSession" -> session # None
      [] c.op = "databases.createDocument" ->
            \* a user grants a document to nobody but themselves
            nextId <= MaxDocs /\ c.perms \in {None, session}
      [] c.op \in {"databases.updateDocument", "databases.deleteDocument"} ->
            \E j \in DocIndex(c.id) : Readable(docs[j])
      [] OTHER -> TRUE

DocsAfter(c, p) ==
    CASE c.op = "databases.createDocument" -> Append(docs, NewDocument(c, p))
      [] c.op = "databases.updateDocument" ->
            [j \in DOMAIN docs |->
                IF docs[j].sid = c.id THEN UpdatedDocument(docs[j], c.data) ELSE docs[j]]
      [] c.op = "databases.deleteDocument" -> SelectSeq(docs, LAMBDA d : d.sid # c.id)
      [] OTHER -> docs

RemoteResult(c, p) ==
    CASE c.op = "account.get" -> session
      [] c.op = "databases.listDocuments" -> ListDocuments(c)
      [] c.op = "databases.createDocument" -> NewDocument(c, p)
      [] c.op = "databases.updateDocument" ->
            UpdatedDocument(docs[CHOOSE j \in DocIndex(c.id) : TRUE], c.data)
      [] OTHER -> None

\* the service answers call i: it applies the request and replies
RemoteReply(i) ==
    /\ i \in DOMAIN calls
    /\ calls[i].st = "sent"
    /\ RemoteAccepts(calls[i])
    /\ LET c == calls[i] IN
        /\ calls' = [calls EXCEPT ![i] =
                        [c EXCEPT !.st = "ok",
                                  !.res = RemoteResult(c, GrantedTo(c, session))]]
        /\ docs' = DocsAfter(c, GrantedTo(c, session))
        /\ session' = CASE c.op = "account.createEmailPasswordSession" -> c.cred.email
                        [] c.op = "account.deleteSession" -> None
                        [] OTHER -> session
        /\ accounts' = IF c.op = "account.create"
                       THEN [accounts EXCEPT ![c.cred.email] = c.cred.password]
                       ELSE accounts
        /\ nextId' = IF c.op = "databases.createDocument" THEN nextId + 1 ELSE nextId
        /\ ev' = RemoteEvent
    /\ UNCHANGED <<authModule, client, now, dashDraft, expenses, user, path, layoutPc, authPage, dash>>

\* the answer the handler awaiting call c resumes with: the service's, or a
\* failure (the service rejects the request or it never gets through, which
\* leaves the remote state as it is and may happen to any unanswered call)
Answer(c) == IF c.st = "ok" THEN "ok" ELSE "err"

---------------------------------------------------------------------------
(* The session store: stores/auth.ts, and its other draft part_002 *)

\* an initAuth that publishes none whatever account.get answered
initAuthPublishNone(c) == None

\* what initAuth publishes into the user store for the answer c of account.get
initAuthPublish(c) == IF c.st = "ok" THEN c.res ELSE None

\* what initAuth returns to its caller: auth.ts has no return statement
initAuthReturn(module, c) ==
    IF module = "part_002"
    THEN (IF Answer(c) = "ok" THEN c.res ELSE None)
    ELSE Undefined

\* whether logout rethrows a failed deleteSession (auth.ts) or only logs it
logoutThrows(module) == module = "auth.ts"

---------------------------------------------------------------------------
(* The layout: routes/+layout.svelte *)

\* onMount, up to the await of account.get inside initAuth
LayoutOnMount ==
    /\ client = "app"
    /\ layoutPc = "init"
    /\ SessionCallFits
    /\ layoutPc' = "awaiting"
    /\ calls' = Append(calls, Call("layout.onMount", "account.get", NoCred))
    /\ ev' = Event("layout.onMount", "start", "none", "pending", "none", None,
                   "account.get", NoCred)
    /\ UNCHANGED <<authModule, client, now, dashDraft, expenses, docs, nextId, accounts, session, user, path, authPage, dash>>

\* the target of the layout's redirect, given what initAuth returned
LayoutRedirect(currentUser, pathname) ==
    IF Falsy(currentUser) /\ ~StartsWithAuth(pathname) THEN "/auth" ELSE "none"

\* onMount, from the answer of account.get: initAuth publishes and returns,
\* then the layout redirects
LayoutOnMountResume(i) ==
    /\ i \in DOMAIN calls
    /\ calls[i].k = "layout.onMount"
    /\ LET c == calls[i]
           currentUser == initAuthReturn(authModule, c)
           g == LayoutRedirect(currentUser, path)
       IN
        /\ user' = initAuthPublish(c)
        /\ path' = GotoPath(g)
        /\ dash' = DashAfterGoto(g)
        /\ authPage' = AuthPageAfterGoto(g, authPage)
        /\ calls' = CallsAfterGoto(Remove(calls, i), g)
        /\ ev' = Event("layout.onMount", "account.get", Answer(c), "resolved", g,
                       currentUser, "none", NoCred)
    /\ layoutPc' = "done"
    /\ UNCHANGED <<authModule, client, now, dashDraft, expenses, docs, nextId, accounts, session>>

\* the Sign out button, rendered while $user is set: handleLogout up to the
\* await of account.deleteSession inside logout
HandleLogout ==
    /\ client = "app"
    /\ user # None
    /\ SessionCallFits
    /\ calls' = Append(calls, Call("layout.handleLogout", "account.deleteSession", NoCred))
    /\ ev' = Event("layout.handleLogout", "start", "none", "pending", "none", None,
                   "account.deleteSession", NoCred)
    /\ UNCHANGED <<authModule, client, now, dashDraft, expenses, docs, nextId, accounts, session, user, path, layoutPc, authPage, dash>>

\* handleLogout, from the answer of account.deleteSession
HandleLogoutResume(i) ==
    /\ i \in DOMAIN calls
    /\ calls[i].k = "layout.handleLogout"
    /\ LET c == calls[i]
           thrown == Answer(c) = "err" /\ logoutThrows(authModule)
           g == IF thrown THEN "none" ELSE "/auth"
       IN
        /\ user' = IF Answer(c) = "ok" THEN None ELSE user
        /\ path' = GotoPath(g)
        /\ dash' = DashAfterGoto(g)
        /\ authPage' = AuthPageAfterGoto(g, authPage)
        /\ calls' = CallsAfterGoto(Remove(calls, i), g)
        /\ ev' = Event("layout.handleLogout", "account.deleteSession", Answer(c),
                       IF thrown THEN "caught" ELSE "resolved", g, None, "none", NoCred)
    /\ UNCHANGED <<authModule, client, now, dashDraft, expenses, docs, nextId, accounts, session, layoutPc>>

---------------------------------------------------------------------------
(* The auth screen: routes/auth/+page.svelte *)

\* the toggle under the form: isLogin = !isLogin
ToggleIsLogin ==
    /\ client = "app"
    /\ path = "/auth"
    /\ authPage' = [authPage EXCEPT !.isLogin = ~authPage.isLogin]
    /\ ev' = UiEvent
    /\ UNCHANGED <<authModule, client, now, dashDraft, expenses, docs, nextId, accounts, session, user, path, layoutPc, dash, calls>>

\* the inputs bound to email and password; they stay enabled while loading
TypeCredentials(e, p) ==
    /\ client = "app"
    /\ path = "/auth"
    /\ authPage' = [authPage EXCEPT !.email = e, !.password = p]
    /\ ev' = UiEvent
    /\ UNCHANGED <<authModule, client, now, dashDraft, expenses, docs, nextId, accounts, session, user, path, layoutPc, dash, calls>>

\* email and password as the component holds them now
FormCredentials(page) == [email |-> page.email, password |-> page.password]

\* a catch block with the two messages swapped
AuthErrorMessageSwapped(isLogin) ==
    IF isLogin THEN "Failed to create account" ELSE "Invalid credentials"

\* a catch block that leaves error as null
AuthErrorMessageUnset(isLogin) == None

\* the message of handleSubmit's catch block
AuthErrorMessage(isLogin) ==
    IF isLogin THEN "Invalid credentials" ELSE "Failed to create account"

\* a handleSubmit that sets the user and requests no navigation
AuthSuccessStay == "none"

\* where handleSubmit navigates after account.get succeeded
AuthSuccessGoto == "/"

\* the form is submitted (email and password are required inputs, the button
\* is disabled while loading): handleSubmit up to its first await
AuthHandleSubmit ==
    /\ client = "app"
    /\ path = "/auth"
    /\ ~authPage.loading
    /\ authPage.email # "" /\ authPage.password # ""
    /\ SessionCallFits
    /\ LET cred == FormCredentials(authPage)
           k == IF authPage.isLogin THEN "auth.login.session" ELSE "auth.register.create"
           op == IF authPage.isLogin THEN "account.createEmailPasswordSession"
                 ELSE "account.create"
       IN
        /\ calls' = Append(calls, Call(k, op, cred))
        /\ ev' = Event("auth.handleSubmit", "start", "none", "pending", "none", None, op, cred)
    /\ authPage' = [authPage EXCEPT !.loading = TRUE, !.error = None]
    /\ UNCHANGED <<authModule, client, now, dashDraft, expenses, docs, nextId, accounts, session, user, path, layoutPc, dash>>

\* the await that follows await k of handleSubmit when k succeeded
AuthNextAwait(k) ==
    CASE k = "auth.register.create" -> "auth.register.session"
      [] k = "auth.register.session" -> "auth.register.get"
      [] k = "auth.login.session" -> "auth.login.get"
      [] OTHER -> "end"

AuthAwaitOp(k) ==
    IF k \in {"auth.register.get", "auth.login.get"} THEN "account.get"
    ELSE "account.createEmailPasswordSession"

AuthAwaitCred(k, page) ==
    IF AuthAwaitOp(k) = "account.get" THEN NoCred ELSE FormCredentials(page)

\* handleSubmit, from the answer of the call it awaited
AuthHandleSubmitResume(i) ==
    /\ i \in DOMAIN calls
    /\ calls[i].k \in {"auth.login.session", "auth.login.get", "auth.register.create",
                       "auth.register.session", "auth.register.get"}
    /\ LET c == calls[i]
           next == AuthNextAwait(c.k)
       IN
        IF Answer(c) = "err"
        THEN \* catch, finally
            /\ authPage' = [authPage EXCEPT !.error = AuthErrorMessage(authPage.isLogin),
                                            !.loading = FALSE]
            /\ calls' = Remove(calls, i)
            /\ ev' = Event("auth.handleSubmit", c.k, "err", "caught", "none", None,
                           "none", c.cred)
            /\ UNCHANGED <<user, path, dash>>
        ELSE IF next # "end"
        THEN \* the next remote call; createEmailPasswordSession(email, password)
             \* reads the component's variables when it is issued
            /\ calls' = [calls EXCEPT ![i] =
                            Call(next, AuthAwaitOp(next), AuthAwaitCred(next, authPage))]
            /\ ev' = Event("auth.handleSubmit", c.k, "ok", "pending", "none", None,
                           AuthAwaitOp(next), AuthAwaitCred(next, authPage))
            /\ UNCHANGED <<user, path, dash, authPage>>
        ELSE \* user.set(currentUser); goto('/'); finally
            /\ user' = c.res
            /\ path' = GotoPath(AuthSuccessGoto)
            /\ authPage' = [authPage EXCEPT !.loading = FALSE]
            /\ calls' = Remove(calls, i)
            /\ ev' = Event("auth.handleSubmit", c.k, "ok", "resolved", AuthSuccessGoto,
                           None, "none", c.cred)
            /\ UNCHANGED dash
    /\ UNCHANGED <<authModule, client, now, dashDraft, expenses, docs, nextId, accounts, session, layoutPc>>

---------------------------------------------------------------------------
(* login and register of stores/auth.ts, called by any client of the store *)

\* login(e, p) up to the await of createEmailPasswordSession
login(e, p) ==
    /\ client = "store"
    /\ authModule = "auth.ts"
    /\ SessionCallFits
    /\ LET cred == [email |-> e, password |-> p] IN
        /\ calls' = Append(calls, Call("login.session", "account.createEmailPasswordSession", cred))
        /\ ev' = Event("login", "start", "none", "pending", "none", None,
                       "account.createEmailPasswordSession", cred)
    /\ UNCHANGED <<authModule, client, now, dashDraft, expenses, docs, nextId, accounts, session, user, path, layoutPc, authPage, dash>>

\* register(e, p, name) up to the await of account.create
register(e, p) ==
    /\ client = "store"
    /\ authModule = "auth.ts"
    /\ SessionCallFits
    /\ LET cred == [email |-> e, password |-> p] IN
        /\ calls' = Append(calls, Call("register.create", "account.create", cred))
        /\ ev' = Event("register", "start", "none", "pending", "none", None,
                       "account.create", cred)
    /\ UNCHANGED <<authModule, client, now, dashDraft, expenses, docs, nextId, accounts, session, user, path, layoutPc, authPage, dash>>

StoreHandler(k) == IF k \in {"login.session", "login.get"} THEN "login" ELSE "register"

\* the await that follows await k of login / register when k succeeded
StoreNextAwait(k) ==
    CASE k = "register.create" -> "register.session"
      [] k = "register.session" -> "register.get"
      [] k = "login.session" -> "login.get"
      [] OTHER -> "end"

\* login / register, from the answer of the call they awaited; the answer of
\* account.get is handled inside initAuth, which never throws
StoreAuthResume(i) ==
    /\ i \in DOMAIN calls
    /\ calls[i].k \in {"login.session", "login.get", "register.create",
                       "register.session", "register.get"}
    /\ LET c == calls[i]
           h == StoreHandler(c.k)
           next == StoreNextAwait(c.k)
       IN
        IF next = "end"
        THEN \* initAuth: publish; login (and register around it) resolves
            /\ user' = initAuthPublish(c)
            /\ calls' = Remove(calls, i)
            /\ ev' = Event(h, c.k, Answer(c), "resolved", "none",
                           initAuthReturn(authModule, c), "none", c.cred)
        ELSE IF Answer(c) = "err"
        THEN \* catch: throw new Error(...)
            /\ calls' = Remove(calls, i)
            /\ ev' = Event(h, c.k, "err", "threw", "none", None, "none", c.cred)
            /\ UNCHANGED user
        ELSE
            /\ calls' = [calls EXCEPT ![i] =
                            Call(next,
                                 IF next \in {"login.get", "register.get"}
                                 THEN "account.get"
                                 ELSE "account.createEmailPasswordSession",
                                 c.cred)]
            /\ ev' = Event(h, c.k, "ok", "pending", "none", None,
                           calls'[i].op, c.cred)
            /\ UNCHANGED user
    /\ UNCHANGED <<authModule, client, now, dashDraft, expenses, docs, nextId, accounts, session, path, layoutPc, authPage, dash>>

---------------------------------------------------------------------------
(* The dashboard: routes/+page.svelte, and the draft in routes/+layout.svelte *)

\* the ids of the categories list the form's select offers
categories == {"food", "transport", "shopping", "entertainment", "health",
               "utilities", "other"}

\* the values typed into the form in a run
AmountInputs == {"7.5"}
DescriptionInputs == {"Lunch"}
CategoryInputs == {"transport"}

\* parseFloat on the amount strings of a run, in cents; NaN is -1
parseFloat(str) ==
    CASE str = "5" -> 500
      [] str = "7.5" -> 750
      [] OTHER -> -1

\* Number.prototype.toString on the amounts of a run
toString(n) ==
    CASE n = 500 -> "5"
      [] n = 750 -> "7.5"
      [] OTHER -> "NaN"

\* the list is rendered: {#if loading} ... {:else if error} ... {:else}
ListShown == dash.mounted /\ ~dash.loading /\ dash.error = None

\* fetchExpenses up to the await of listDocuments, at await k of its caller
DashFetchStart(d) == [d EXCEPT !.loading = TRUE]

DashFetchCall(k) ==
    Request(k, "databases.listDocuments", NoCred, None, NoPayload, None)

\* onMount: fetchExpenses up to the await of listDocuments
DashOnMount ==
    /\ client = "app"
    /\ path = "/"
    /\ ~dash.mounted
    /\ ExpenseCallFits
    /\ dash' = DashFetchStart([dash EXCEPT !.mounted = TRUE])
    /\ calls' = Append(calls, DashFetchCall("dash.fetchExpenses"))
    /\ ev' = Event("dash.fetchExpenses", "start", "none", "pending", "none", None,
                   "databases.listDocuments", NoCred)
    /\ UNCHANGED <<authModule, client, now, dashDraft, expenses, docs, nextId, accounts, session,
                   user, path, layoutPc, authPage>>

\* the sum a + b of two amounts as a binary floating-point number of
\* MantissaBits significant bits, rounded to the nearest such number and, in
\* the middle between two, to the one with the even mantissa
RECURSIVE Quantum(_, _)
Quantum(x, q) == IF x < q * (2 ^ MantissaBits) THEN q ELSE Quantum(x, 2 * q)

RoundToEven(x, q) ==
    LET lo == (x \div q) * q
        r == x - lo
    IN  IF 2 * r < q THEN lo
        ELSE IF 2 * r > q THEN lo + q
        ELSE IF (lo \div q) % 2 = 0 THEN lo ELSE lo + q

FloatAdd(a, b) == IF a + b < 0 THEN a + b ELSE RoundToEven(a + b, Quantum(a + b, 1))

\* expenses.reduce((sum, exp) => sum + parseFloat(exp.amount), 0), in cents
RECURSIVE SumFrom(_, _)
SumFrom(sum, q) ==
    IF q = <<>> THEN sum ELSE SumFrom(FloatAdd(sum, Head(q).amount), Tail(q))

SumAmounts(q) == SumFrom(0, q)

\* the calendar: time 0 is 00:00 of Wednesday 1 October 2025, local time, and
\* a day has DayTicks times
DayOf(t) == t \div DayTicks

\* Date.prototype.getDay: 0 is Sunday
getDay(t) == (DayOf(t) + EpochWeekday) % 7

\* the days on which the months about time 0 begin: 1 September, 1 October
\* and 1 November 2025
MonthStartDays == {-30, 0, 31}

\* new Date(now.getFullYear(), now.getMonth(), 1), with now = t
StartOfMonth(t) ==
    LET d == CHOOSE m \in MonthStartDays :
                /\ m <= DayOf(t)
                /\ \A n \in MonthStartDays : n <= DayOf(t) => n <= m
    IN  d * DayTicks

\* a week boundary that is seven days before now, whatever the day of the week
StartOfWeekSevenDaysBack(t) == t - 7 * DayTicks

\* new Date(now.setDate(now.getDate() - now.getDay())), with now = t: setDate
\* changes the day and keeps the time of day
StartOfWeek(t) == t - getDay(t) * DayTicks

\* exp.$createdAt
SystemCreatedAt(exp) == exp.screatedAt

\* calculateStats() on list q, with now = t
calculateStats(q, t) ==
    [total |-> SumAmounts(q),
     thisMonth |-> SumAmounts(SelectSeq(q, LAMBDA exp :
                        SystemCreatedAt(exp) >= StartOfMonth(t))),
     thisWeek |-> SumAmounts(SelectSeq(q, LAMBDA exp :
                        SystemCreatedAt(exp) >= StartOfWeek(t)))]

\* a fetchExpenses whose catch block also empties the list
DashAfterFetchEmptied(d, c) ==
    IF Answer(c) = "ok"
    THEN [d EXCEPT !.expenses = c.res, !.stats = calculateStats(c.res, now),
                   !.loading = FALSE]
    ELSE [d EXCEPT !.expenses = <<>>, !.error = "Failed to load expenses",
                   !.loading = FALSE]

\* the dashboard's state after fetchExpenses got answer c
DashAfterFetch(d, c) ==
    IF Answer(c) = "ok"
    THEN [d EXCEPT !.expenses = c.res, !.stats = calculateStats(c.res, now),
                   !.loading = FALSE]
    ELSE [d EXCEPT !.error = "Failed to load expenses", !.loading = FALSE]

\* fetchExpenses, from the answer of listDocuments; the handler that awaited
\* it (onMount, handleSubmit, deleteExpense) ends with it
DashFetchResume(i) ==
    /\ i \in DOMAIN calls
    /\ calls[i].k \in DashFetchAwaits
    /\ LET c == calls[i] IN
        /\ dash' = DashAfterFetch(dash, c)
        /\ calls' = Remove(calls, i)
        /\ ev' = Event("dash.fetchExpenses", c.k, Answer(c),
                       IF Answer(c) = "ok" THEN "resolved" ELSE "caught", "none", None,
                       "none", NoCred)
    /\ UNCHANGED <<authModule, client, now, dashDraft, expenses, docs, nextId, accounts, session,
                   user, path, layoutPc, authPage>>

\* the Add Expense button: showForm = true
OpenForm ==
    /\ client = "app"
    /\ dash.mounted
    /\ ~dash.showForm
    /\ dash' = [dash EXCEPT !.showForm = TRUE]
    /\ ev' = UiEvent
    /\ UNCHANGED <<authModule, client, now, dashDraft, expenses, docs, nextId, accounts, session,
                   user, path, layoutPc, authPage, calls>>

\* the form's close and Cancel buttons: showForm = false
CloseForm ==
    /\ client = "app"
    /\ dash.showForm
    /\ dash' = [dash EXCEPT !.showForm = FALSE]
    /\ ev' = UiEvent
    /\ UNCHANGED <<authModule, client, now, dashDraft, expenses, docs, nextId, accounts, session,
                   user, path, layoutPc, authPage, calls>>

\* the inputs bound to currentAmount, currentDescription and currentCategory
TypeForm(a, d, c) ==
    /\ client = "app"
    /\ dash.showForm
    /\ dash' = [dash EXCEPT !.currentAmount = a, !.currentDescription = d,
                            !.currentCategory = c]
    /\ ev' = UiEvent
    /\ UNCHANGED <<authModule, client, now, dashDraft, expenses, docs, nextId, accounts, session,
                   user, path, layoutPc, authPage, calls>>

\* the edit button of list entry j (the form's overlay covers the list while
\* the form is open): editExpense(expense), and the reactive current* values
editExpense(j) ==
    /\ client = "app"
    /\ ListShown
    /\ ~dash.showForm
    /\ j \in DOMAIN dash.expenses
    /\ LET expense == dash.expenses[j] IN
        dash' = [dash EXCEPT !.editingExpense = expense,
                             !.currentAmount = toString(expense.amount),
                             !.currentDescription = expense.description,
                             !.currentCategory = expense.category,
                             !.showForm = TRUE]
    /\ ev' = UiEvent
    /\ UNCHANGED <<authModule, client, now, dashDraft, expenses, docs, nextId, accounts, session,
                   user, path, layoutPc, authPage, calls>>

\* the form is submitted (amount and description are required inputs):
\* handleSubmit up to the await of account.get
DashHandleSubmit ==
    /\ client = "app"
    /\ dash.showForm
    /\ dash.currentAmount # ""
    /\ dash.currentDescription # ""
    /\ ExpenseCallFits
    /\ dashDraft = "layout" => ClockFits
    /\ calls' = Append(calls, Call("dash.submit.get", "account.get", NoCred))
    /\ ev' = Event("dash.handleSubmit", "start", "none", "pending", "none", None,
                   "account.get", NoCred)
    /\ UNCHANGED <<authModule, client, now, dashDraft, expenses, docs, nextId, accounts, session,
                   user, path, layoutPc, authPage, dash>>

\* the fields handleSubmit sends, read from the form when account.get answered
SubmitPayload(d, userId) ==
    Payload({"amount", "description", "category", "userId"},
            [NoData EXCEPT !.userId = userId, !.amount = parseFloat(d.currentAmount),
                           !.category = d.currentCategory,
                           !.description = d.currentDescription])

\* a catch block of handleSubmit that also closes the form
DashAfterSubmitErrorClosed(d, draft) == [d EXCEPT !.showForm = FALSE]

\* the dashboard's state after handleSubmit's catch block, in draft
DashAfterSubmitError(d, draft) ==
    IF draft = "layout" THEN [d EXCEPT !.error = "Failed to save expense"] ELSE d

\* the dashboard's state after a successful create or update: the form is
\* reset and closed, the edit target cleared
DashAfterSubmitSaved(d) ==
    [d EXCEPT !.editingExpense = NoDoc, !.showForm = FALSE,
              !.currentAmount = "", !.currentDescription = "", !.currentCategory = "other"]

\* the fields handleSubmit sends in the draft of +layout.svelte: expenseData,
\* with now == new Date().toISOString()
SubmitPayloadStamped(d, userId, t) ==
    Payload({"amount", "description", "category", "userId", "date", "createdAt",
             "updatedAt"},
            [SubmitPayload(d, userId).values EXCEPT
                !.date = t, !.createdAt = t, !.updatedAt = t])

\* handleSubmit, from the answer of the call it awaited
DashHandleSubmitResume(i) ==
    /\ i \in DOMAIN calls
    /\ calls[i].k \in DashSubmitAwaits
    /\ LET c == calls[i] IN
        IF Answer(c) = "err"
        THEN \* catch
            /\ dash' = DashAfterSubmitError(dash, dashDraft)
            /\ calls' = Remove(calls, i)
            /\ ev' = Event("dash.handleSubmit", c.k, "err", "caught", "none", None,
                           "none", NoCred)
            /\ UNCHANGED now
        ELSE IF c.k = "dash.submit.get"
        THEN \* update the edit target, or create
            /\ \E t \in ClockReads :
               LET op == IF Truthy(dash.editingExpense)
                         THEN "databases.updateDocument" ELSE "databases.createDocument"
                   k == IF Truthy(dash.editingExpense)
                        THEN "dash.submit.update" ELSE "dash.submit.create"
               IN
                /\ now' = (IF dashDraft = "layout" THEN ClockAfter(t) ELSE now)
                /\ calls' = [calls EXCEPT ![i] =
                                Following(
                                    DocCall(k, op, dash.editingExpense.sid,
                                            IF dashDraft = "layout"
                                            THEN SubmitPayloadStamped(dash, c.res, t)
                                            ELSE SubmitPayload(dash, c.res)),
                                    [NoSaved EXCEPT !.at = t])]
                /\ ev' = Event("dash.handleSubmit", c.k, "ok", "pending", "none", None,
                               op, NoCred)
            /\ UNCHANGED dash
        ELSE \* reset the form, then fetchExpenses
            /\ dash' = DashFetchStart(DashAfterSubmitSaved(dash))
            /\ calls' = [calls EXCEPT ![i] =
                            Following(DashFetchCall("dash.submit.fetch"),
                                      Saved(c, c.saved.at))]
            /\ ev' = Event("dash.handleSubmit", c.k, "ok", "pending", "none", None,
                           "databases.listDocuments", NoCred)
            /\ UNCHANGED now
    /\ UNCHANGED <<authModule, client, dashDraft, expenses, docs, nextId, accounts, session,
                   user, path, layoutPc, authPage>>

\* the delete button of list entry j: deleteExpense(expense.$id) up to the
\* await of deleteDocument
DashDeleteExpense(j) ==
    /\ client = "app"
    /\ ListShown
    /\ ~dash.showForm
    /\ j \in DOMAIN dash.expenses
    /\ ExpenseCallFits
    /\ calls' = Append(calls, DocCall("dash.delete.doc", "databases.deleteDocument",
                                      dash.expenses[j].sid, NoPayload))
    /\ ev' = Event("dash.deleteExpense", "start", "none", "pending", "none", None,
                   "databases.deleteDocument", NoCred)
    /\ UNCHANGED <<authModule, client, now, dashDraft, expenses, docs, nextId, accounts, session,
                   user, path, layoutPc, authPage, dash>>

\* deleteExpense, from the answer of deleteDocument
DashDeleteResume(i) ==
    /\ i \in DOMAIN calls
    /\ calls[i].k = "dash.delete.doc"
    /\ LET c == calls[i] IN
        IF Answer(c) = "ok"
        THEN \* fetchExpenses
            /\ dash' = DashFetchStart(dash)
            /\ calls' = [calls EXCEPT ![i] =
                            Following(DashFetchCall("dash.delete.fetch"), Saved(c, now))]
            /\ ev' = Event("dash.deleteExpense", c.k, "ok", "pending", "none", None,
                           "databases.listDocuments", NoCred)
        ELSE \* catch
            /\ dash' = [dash EXCEPT !.error = "Failed to delete expense"]
            /\ calls' = Remove(calls, i)
            /\ ev' = Event("dash.deleteExpense", c.k, "err", "caught", "none", None,
                           "none", NoCred)
    /\ UNCHANGED <<authModule, client, now, dashDraft, expenses, docs, nextId, accounts, session,
                   user, path, layoutPc, authPage>>

---------------------------------------------------------------------------
(* The expense store: stores/expenses.ts (part_003 is the same code untyped) *)

Users == Emails

\* the arguments the store's functions are called with in a run
AmountArgs == {750}

\* expense.amount, the argument of addExpense
AddAmount == 500

\* expense.date, as new Date(expense.date) reads it
DateArg == FirstTime

\* the callers of the store's functions: one that awaits each call before the
\* next, one that calls again while a call is awaited (the functions are
\* exported, nothing serialises them)
StoreClients == {"store", "store.overlapping"}

\* item.id of a list entry: the documents the service returns carry $id, and
\* the collection has no attribute named id
ItemId(item) == IF "id" \in DOMAIN item THEN item.id ELSE Undefined

\* the record addExpense has just appended to the list, as the request that
\* was accepted before the next call
Added(item) ==
    [NoSaved EXCEPT !.op = "databases.createDocument", !.id = item.sid,
                    !.data = Payload({"userId"}, [NoData EXCEPT !.userId = item.userId])]

\* a store whose fetchExpenses appends the documents to the list
ExpensesAfterFetchAppends(current, c) ==
    CASE c.k = "store.fetch" -> (IF Answer(c) = "ok" THEN current \o c.res ELSE <<>>)
      [] c.k = "store.add" /\ Answer(c) = "ok" -> Append(current, c.res)
      [] OTHER -> current

\* fetchExpenses(userId) up to the await of listDocuments
fetchExpenses(userId) ==
    /\ client \in StoreClients
    /\ ExpenseCallFits
    /\ calls' = Append(calls,
            Following(Request("store.fetch", "databases.listDocuments", NoCred,
                              None, NoPayload, userId),
                      IF ev.h = "addExpense" /\ ev.end = "resolved"
                      THEN Added(expenses[Len(expenses)]) ELSE NoSaved))
    /\ ev' = Event("fetchExpenses", "start", "none", "pending", "none", None,
                   "databases.listDocuments", NoCred)
    /\ UNCHANGED <<authModule, client, now, dashDraft, expenses, docs, nextId, accounts, session,
                   user, path, layoutPc, authPage, dash>>

\* addExpense(expense) up to the await of createDocument
addExpense(userId, amount) ==
    /\ client \in StoreClients
    /\ ExpenseCallFits
    /\ ClockFits
    /\ \E t \in ClockReads :
        /\ now' = ClockAfter(t)
        /\ calls' = Append(calls, WithPermissions(
                DocCall("store.add", "databases.createDocument", None,
                        Payload({"userId", "amount", "category", "description", "date",
                                 "createdAt", "updatedAt"},
                                [userId |-> userId, amount |-> amount, category |-> "food",
                                 description |-> "Lunch", date |-> DateArg,
                                 createdAt |-> t, updatedAt |-> t])),
                userId))
    /\ ev' = Event("addExpense", "start", "none", "pending", "none", None,
                   "databases.createDocument", NoCred)
    /\ UNCHANGED <<authModule, client, dashDraft, expenses, docs, nextId, accounts, session,
                   user, path, layoutPc, authPage, dash>>

\* updateExpense(id, {amount}) up to the await of updateDocument
updateExpense(id, amount) ==
    /\ client \in StoreClients
    /\ ExpenseCallFits
    /\ ClockFits
    /\ \E t \in ClockReads :
        /\ now' = ClockAfter(t)
        /\ calls' = Append(calls,
                DocCall("store.update", "databases.updateDocument", id,
                        Payload({"amount", "updatedAt"},
                                [NoData EXCEPT !.amount = amount, !.updatedAt = t])))
    /\ ev' = Event("updateExpense", "start", "none", "pending", "none", None,
                   "databases.updateDocument", NoCred)
    /\ UNCHANGED <<authModule, client, dashDraft, expenses, docs, nextId, accounts, session,
                   user, path, layoutPc, authPage, dash>>

\* deleteExpense(id) up to the await of deleteDocument
deleteExpense(id) ==
    /\ client \in StoreClients
    /\ ExpenseCallFits
    /\ calls' = Append(calls, DocCall("store.delete", "databases.deleteDocument", id, NoPayload))
    /\ ev' = Event("deleteExpense", "start", "none", "pending", "none", None,
                   "databases.deleteDocument", NoCred)
    /\ UNCHANGED <<authModule, client, now, dashDraft, expenses, docs, nextId, accounts, session,
                   user, path, layoutPc, authPage, dash>>

StoreFunction(k) ==
    CASE k = "store.fetch" -> "fetchExpenses"
      [] k = "store.add" -> "addExpense"
      [] k = "store.update" -> "updateExpense"
      [] OTHER -> "deleteExpense"

\* the shared list after the store's function that awaited c got its answer
ExpensesAfter(current, c) ==
    CASE c.k = "store.fetch" -> (IF Answer(c) = "ok" THEN c.res ELSE <<>>)
      [] c.k = "store.add" /\ Answer(c) = "ok" -> Append(current, c.res)
      [] c.k = "store.update" /\ Answer(c) = "ok" ->
            [j \in DOMAIN current |->
                IF ItemId(current[j]) = c.id THEN c.res ELSE current[j]]
      [] c.k = "store.delete" /\ Answer(c) = "ok" ->
            SelectSeq(current, LAMBDA item : ItemId(item) # c.id)
      [] OTHER -> current

\* how the store's function that awaited c ends: fetchExpenses logs a failure,
\* the others log it and rethrow
StoreEnd(c) ==
    IF Answer(c) = "ok" THEN "resolved"
    ELSE IF c.k = "store.fetch" THEN "caught" ELSE "threw"

\* a function of the store, from the answer of the call it awaited
StoreResume(i) ==
    /\ i \in DOMAIN calls
    /\ calls[i].k \in StoreAwaits
    /\ LET c == calls[i] IN
        /\ expenses' = ExpensesAfter(expenses, c)
        /\ calls' = Remove(calls, i)
        /\ ev' = Event(StoreFunction(c.k), c.k, Answer(c), StoreEnd(c), "none", None,
                       "none", NoCred)
    /\ UNCHANGED <<authModule, client, now, dashDraft, docs, nextId, accounts, session,
                   user, path, layoutPc, authPage, dash>>

---------------------------------------------------------------------------
(* The session flow: page load, sign in, sign up, sign out *)

InitAuth ==
    /\ authModule \in {"auth.ts", "part_002"}
    /\ client \in {"app", "store"}
    /\ client = "store" => authModule = "auth.ts"
    /\ accounts = [e \in Emails |-> IF e = "a@x" THEN "pw1" ELSE None]
    /\ session \in {None, "a@x"}
    /\ user = None
    /\ path \in {"/", "/auth"}
    /\ layoutPc = "init"
    /\ authPage = AuthPageInit
    /\ dash = DashInit
    /\ dashDraft = "page"
    /\ expenses = <<>>
    /\ docs = <<>>
    /\ nextId = 1
    /\ calls = <<>>
    /\ now = FirstTime
    /\ ev = NoEvent

NextAuth ==
    \/ LayoutOnMount
    \/ \E i \in DOMAIN calls : LayoutOnMountResume(i)
    \/ HandleLogout
    \/ \E i \in DOMAIN calls : HandleLogoutResume(i)
    \/ ToggleIsLogin
    \/ \E e \in Emails, p \in Passwords : TypeCredentials(e, p)
    \/ AuthHandleSubmit
    \/ \E i \in DOMAIN calls : AuthHandleSubmitResume(i)
    \/ \E e \in Emails, p \in Passwords : login(e, p)
    \/ \E e \in Emails, p \in Passwords : register(e, p)
    \/ \E i \in DOMAIN calls : StoreAuthResume(i)
    \/ DashOnMount
    \/ \E i \in DOMAIN calls : DashFetchResume(i)
    \/ \E i \in DOMAIN calls : RemoteReply(i)

SpecAuth == InitAuth /\ [][NextAuth]_vars

---------------------------------------------------------------------------
(* Claims about the session flow, checked under SpecAuth *)

InitAuthRan == ev.h \in {"layout.onMount", "login", "register"} /\ ev.end = "resolved"

AuthCreateAwaits == {"register.create", "auth.register.create"}

\* C1: on page load at a path outside /auth, the layout navigates to /auth if
\* and only if session restore found no active session; with an active
\* session it does not navigate.
C1_RedirectIffNoSession ==
    [][(ev'.h = "layout.onMount" /\ ev'.k = "account.get" /\ ~StartsWithAuth(path))
        => ((ev'.goto = "/auth") <=> (ev'.st = "err"))]_vars

\* C2: for every outcome of account.get, what initAuth returns to its caller
\* equals what it publishes into the user store: the user on success, none
\* (null or undefined) on failure.
C2_InitAuthReturnsPublished ==
    InitAuthRan => (IF Falsy(user) THEN Falsy(ev.ret) ELSE ev.ret = user)

\* C3: the dashboard issues listDocuments only once session restore has
\* completed and the user store holds a user.
C3_ListOnlyWhenAuthenticated ==
    ev.req = "databases.listDocuments" => (layoutPc = "done" /\ user # None)

C6_RejectedLoginThrows ==
    (ev'.h = "login" /\ ev'.k = "login.session" /\ ev'.st = "err")
        => (ev'.end = "threw" /\ user' = user)

\* C6 as stated: whenever login resolves without throwing, the user store is
\* non-none; when the credentials are rejected it throws and the user store is
\* unchanged.
C6_LoginResolvesSignedIn ==
    [][/\ (ev'.h = "login" /\ ev'.end = "resolved") => user' # None
       /\ C6_RejectedLoginThrows]_vars

\* C6 as amended: login resolves without throwing only after the credentials
\* were accepted, and then the user store is non-none exactly when the session
\* query inside initAuth succeeded; when the credentials are rejected it
\* throws and the user store is unchanged.
C6_LoginResolvesAfterInitAuth ==
    [][/\ (ev'.h = "login" /\ ev'.end = "resolved")
            => (/\ ev'.k = "login.get"
                /\ \E i \in DOMAIN calls : calls[i].k = "login.get" /\ Answer(calls[i]) = ev'.st
                /\ (user' # None <=> ev'.st = "ok"))
       /\ C6_RejectedLoginThrows]_vars

C6_Witness ==
    ev.h = "login" /\ ev.end = "resolved" /\ ev.st = "ok" /\ user = "a@x"

\* C7: registration (the store's register and the auth screen in register
\* mode) issues create-session only after create-account was accepted, and
\* with the same email and password; if create-account is rejected it fails,
\* issues no create-session request and leaves the user store unchanged.
C7_RegisterThenLogin ==
    [][/\ (ev'.k \in AuthCreateAwaits /\ ev'.st = "ok")
            => \E i \in DOMAIN calls :
                /\ calls[i].k = ev'.k /\ Answer(calls[i]) = "ok"
                /\ calls'[i].op = "account.createEmailPasswordSession"
                /\ calls'[i].st = "sent"
                /\ calls'[i].cred = calls[i].cred
                /\ ev'.req = "account.createEmailPasswordSession"
       /\ (ev'.k \in AuthCreateAwaits /\ ev'.st = "err")
            => (/\ ev'.end \in {"threw", "caught"}
                /\ ev'.req = "none"
                /\ Len(calls') = Len(calls) - 1
                /\ user' = user)
       /\ (ev'.req = "account.createEmailPasswordSession"
                /\ (ev'.h = "register" \/ (ev'.h = "auth.handleSubmit" /\ ev'.k # "start")))
            => (ev'.k \in AuthCreateAwaits /\ ev'.st = "ok")]_vars

\* C8: whenever handleLogout navigates to the auth screen, the remote session
\* has been deleted and the user store is none, with either logout.
C8_LogoutNavigatesSignedOut ==
    (ev.h = "layout.handleLogout" /\ ev.goto = "/auth") => (ev.st = "ok" /\ user = None)

---------------------------------------------------------------------------
(* The expense flow: a signed-in user on the dashboard, or a client of the
   expense store, against a collection that starts empty or with a record of
   another user *)

\* the record another user's dashboard has created in the collection
OtherUser == "b@x"

OtherUsersDocument ==
    [NoDoc EXCEPT !.sid = "d0", !.userId = OtherUser, !.amount = parseFloat("5"),
                  !.category = "food", !.description = "Taxi", !.perms = OtherUser,
                  !.screatedAt = FirstTime]

InitData ==
    /\ authModule = "auth.ts"
    /\ client \in {"app", "store"}
    /\ accounts = [e \in Emails |-> IF e = "a@x" THEN "pw1" ELSE None]
    /\ session = "a@x"
    /\ user = "a@x"
    /\ path = "/"
    /\ layoutPc = "done"
    /\ authPage = AuthPageInit
    /\ dashDraft \in {"page", "layout"}
    /\ client = "store" => dashDraft = "page"
    /\ dash = DashInit
    /\ expenses = <<>>
    /\ docs \in {<<>>, <<OtherUsersDocument>>}
    /\ docs # <<>> => (client = "app" /\ dashDraft = "page")
    /\ nextId = 1
    /\ calls = <<>>
    /\ now = FirstTime
    /\ ev = NoEvent

NextData ==
    \/ DashOnMount
    \/ \E i \in DOMAIN calls : DashFetchResume(i)
    \/ OpenForm
    \/ CloseForm
    \/ \E a \in AmountInputs, d \in DescriptionInputs, c \in CategoryInputs : TypeForm(a, d, c)
    \/ \E j \in 1..MaxDocs : editExpense(j)
    \/ DashHandleSubmit
    \/ \E i \in DOMAIN calls : DashHandleSubmitResume(i)
    \/ \E j \in 1..MaxDocs : DashDeleteExpense(j)
    \/ \E i \in DOMAIN calls : DashDeleteResume(i)
    \/ \E u \in Users : fetchExpenses(u)
    \/ \E u \in Users : addExpense(u, AddAmount)
    \/ \E j \in 1..MaxDocs, a \in AmountArgs : updateExpense(DocIds[j], a)
    \/ \E j \in 1..MaxDocs : deleteExpense(DocIds[j])
    \/ \E i \in DOMAIN calls : StoreResume(i)
    \/ \E i \in DOMAIN calls : RemoteReply(i)

SpecData == InitData /\ [][NextData]_vars

---------------------------------------------------------------------------
(* Claims about the expense flow, checked under SpecData *)

\* the awaits of a create, update or delete request
MutationAwaits == {"store.add", "store.update", "store.delete",
                   "dash.submit.create", "dash.submit.update", "dash.delete.doc"}

C9_WitnessStore ==
    ev.h = "fetchExpenses" /\ ev.st = "err" /\ expenses = <<>> /\ docs # <<>>

\* C10: when a create, update or delete fails, the handler aborts and retains
\* the state: the list in memory (the store's shared list, the dashboard's
\* list) is what it was, the store's function throws, and the dashboard's
\* form and edit target are what they were (a form that is open stays open).
C10_RejectedMutationRetainsState ==
    [][(ev'.k \in MutationAwaits /\ ev'.st = "err")
        => (/\ expenses' = expenses
            /\ dash'.expenses = dash.expenses
            /\ dash'.showForm = dash.showForm
            /\ dash'.editingExpense = dash.editingExpense
            /\ ev'.end = (IF ev'.k \in StoreAwaits THEN "threw" ELSE "caught")
            /\ ev'.req = "none")]_vars

C10_Witness ==
    /\ ev.h = "dash.handleSubmit" /\ ev.k = "dash.submit.update" /\ ev.st = "err"
    /\ dash.showForm /\ Truthy(dash.editingExpense) /\ dash.expenses # <<>>

C10_WitnessStore ==
    ev.k \in {"store.update", "store.delete"} /\ ev.st = "err" /\ expenses # <<>>

\* C11: after the store's deleteExpense(id) resolved, the shared list holds no
\* record whose $id is id, and the other records are there in their order.
C11_DeleteRemovesRecord ==
    [][\A i \in DOMAIN calls :
        (/\ calls[i].k = "store.delete" /\ calls[i].st = "ok"
         /\ ev'.k = "store.delete" /\ ev'.end = "resolved"
         /\ calls' = Remove(calls, i))
        => expenses' = SelectSeq(expenses, LAMBDA item : item.sid # calls[i].id)]_vars

\* C12: after the store's updateExpense(id, patch) resolved, the record of the
\* shared list whose $id is id is the document the service returned, and the
\* other records are unchanged.
C12_UpdateReplacesRecord ==
    [][\A i \in DOMAIN calls :
        (/\ calls[i].k = "store.update" /\ calls[i].st = "ok"
         /\ ev'.k = "store.update" /\ ev'.end = "resolved"
         /\ calls' = Remove(calls, i))
        => expenses' = [j \in DOMAIN expenses |->
                          IF expenses[j].sid = calls[i].id THEN calls[i].res
                          ELSE expenses[j]]]_vars

\* C13: an update never changes the creation timestamp of the stored record,
\* nor its occurrence date unless the edit is of the date: the createdAt and
\* the date of every record the collection keeps are what they were (no run
\* edits a date: the dashboard's form has no date input, and updateExpense is
\* called with a patch of the amount).
C13_UpdateKeepsCreatedAt ==
    [][\A j \in DOMAIN docs :
        (j \in DOMAIN docs' /\ docs'[j].sid = docs[j].sid)
            => (docs'[j].createdAt = docs[j].createdAt /\ docs'[j].date = docs[j].date)]_vars

\* the categories of the shared configuration, which are the elements of the
\* collection's category attribute
EXPENSE_CATEGORIES == {"food", "rent", "transportation", "entertainment", "shopping",
                       "healthcare", "utilities", "education", "other"}

\* the required attributes of the collection
RequiredAttributes == {"userId", "amount", "category", "description", "date",
                       "createdAt", "updatedAt"}

\* the entries of list q with $id id
Entries(q, id) == {j \in DOMAIN q : q[j].sid = id}

\* C14: when handleSubmit has saved an edit of a record's amount and its list
\* request has answered, the list entry of the record has the new amount, the
\* description and category it had, and an updatedAt that is not earlier than
\* before and is the time of the edit.
C14_SavedEditShowsInList ==
    [][\A i \in DOMAIN calls :
        (/\ calls[i].k = "dash.submit.fetch" /\ calls[i].st = "ok"
         /\ calls[i].saved.op = "databases.updateDocument"
         /\ ev'.k = "dash.submit.fetch" /\ ev'.st = "ok"
         /\ calls' = Remove(calls, i))
        => \A j \in Entries(dash.expenses, calls[i].saved.id) :
            \E n \in Entries(dash'.expenses, calls[i].saved.id) :
                /\ dash'.expenses[n].amount = calls[i].saved.data.values.amount
                /\ dash'.expenses[n].description = dash.expenses[j].description
                /\ dash'.expenses[n].category = dash.expenses[j].category
                /\ dash'.expenses[n].updatedAt >= dash.expenses[j].updatedAt
                /\ dash'.expenses[n].updatedAt = calls[i].saved.at]_vars

\* C15: every create request of the dashboard's handleSubmit carries all the
\* required attributes of the collection, with createdAt and updatedAt set to
\* the same time.
C15_CreateSendsRequiredAttributes ==
    \A i \in DOMAIN calls :
        calls[i].k = "dash.submit.create"
            => /\ RequiredAttributes \subseteq calls[i].data.fields
               /\ calls[i].data.values.createdAt # NoTime
               /\ calls[i].data.values.createdAt = calls[i].data.values.updatedAt

\* C16: every category a create or update request of the dashboard form
\* carries is one of EXPENSE_CATEGORIES.
C16_FormCategoryInSharedSet ==
    \A i \in DOMAIN calls :
        calls[i].k \in {"dash.submit.create", "dash.submit.update"}
            => calls[i].data.values.category \in EXPENSE_CATEGORIES

\* C17: every createDocument request carries document-level permissions, and
\* they are read, update and delete for the user the record is created for.
C17_CreateCarriesOwnerPermissions ==
    \A i \in DOMAIN calls :
        calls[i].op = "databases.createDocument"
            => /\ calls[i].perms # None
               /\ calls[i].perms = calls[i].data.values.userId

C19_CloseDiscardsEdit ==
    [][/\ (dash.showForm /\ ~dash'.showForm /\ ev' = UiEvent)
            => /\ dash'.editingExpense = NoDoc
               /\ dash'.currentAmount = ""
               /\ dash'.currentDescription = ""
               /\ calls' = calls
       /\ (~dash.showForm /\ dash'.showForm
                /\ dash'.editingExpense = dash.editingExpense)
            => dash'.editingExpense = NoDoc]_vars

\* 00:00 of the most recent Sunday at time t
WeekStart(t) == (DayOf(t) - getDay(t)) * DayTicks

\* whether the statistics st are the aggregation over list q at time t: the
\* sums of all records, of those created in the month and in the week of t
StatsOf(st, q, t) ==
    /\ st.total = SumAmounts(q)
    /\ st.thisMonth = SumAmounts(SelectSeq(q, LAMBDA exp : exp.screatedAt >= StartOfMonth(t)))
    /\ st.thisWeek = SumAmounts(SelectSeq(q, LAMBDA exp : exp.screatedAt >= WeekStart(t)))

\* C20: when the dashboard's deleteExpense completes after the service
\* accepted the deletion, the list does not contain the record and the
\* statistics are the aggregation over the list, whether the follow-up list
\* request succeeded or failed.
C20_DeleteLeavesListAndStats ==
    [][\A i \in DOMAIN calls :
        (/\ calls[i].k = "dash.delete.fetch"
         /\ calls[i].saved.op = "databases.deleteDocument"
         /\ ev'.k = "dash.delete.fetch"
         /\ calls' = Remove(calls, i))
        => /\ Entries(dash'.expenses, calls[i].saved.id) = {}
           /\ StatsOf(dash'.stats, dash'.expenses, now)]_vars

\* C21: whenever the dashboard is mounted and no remote call is in flight, its
\* list is the collection as the service would list it to the user.
C21_IdleListMatchesRemote ==
    (client = "app" /\ dash.mounted /\ calls = <<>>)
        => dash.expenses = ListDocuments(DashFetchCall("dash.fetchExpenses"))

---------------------------------------------------------------------------
(* The statistics: the dashboard is mounted on a collection of records of the
   signed-in user that were created in the weeks before *)

\* the amounts of the records, in cents: small ones and one that takes all
\* the significant bits
StatAmounts == {1, 2, (2 ^ MantissaBits) - 1}

\* the times the records were created at: Sunday 28 September 06:00, Tuesday
\* 30 September 06:00, Wednesday 1 October 06:00, Sunday 5 October 18:00
StatCreated == {-22, -6, 2, 38}

\* the times the dashboard is mounted at: Wednesday 1 October 12:00 and Monday
\* 6 October 12:00
StatNows == {4, 44}

StatRecord(j, amount, t) ==
    [NoDoc EXCEPT !.sid = DocIds[j], !.userId = "a@x", !.amount = amount,
                  !.category = "food", !.description = "Lunch", !.perms = "a@x",
                  !.screatedAt = t]

InitStats ==
    /\ authModule = "auth.ts"
    /\ client = "app"
    /\ accounts = [e \in Emails |-> IF e = "a@x" THEN "pw1" ELSE None]
    /\ session = "a@x"
    /\ user = "a@x"
    /\ path = "/"
    /\ layoutPc = "done"
    /\ authPage = AuthPageInit
    /\ dashDraft = "page"
    /\ dash = DashInit
    /\ expenses = <<>>
    /\ now \in StatNows
    /\ \E n \in 0..MaxStatDocs :
        \E f \in [1..n -> StatAmounts \X StatCreated] :
            /\ \A j \in 1..n : f[j][2] <= now
            /\ \A j, k \in 1..n : j <= k => f[j][2] <= f[k][2]
            /\ docs = [j \in 1..n |-> StatRecord(j, f[j][1], f[j][2])]
            /\ nextId = n + 1
    /\ calls = <<>>
    /\ ev = NoEvent

NextStats ==
    \/ DashOnMount
    \/ \E i \in DOMAIN calls : RemoteReply(i)
    \/ \E i \in DOMAIN calls : DashFetchResume(i)

SpecStats == InitStats /\ [][NextStats]_vars

\* the records of list q created before time t
CreatedBefore(q, t) == SelectSeq(q, LAMBDA exp : exp.screatedAt < t)

\* the records of list q created at time t or later
CreatedSince(q, t) == SelectSeq(q, LAMBDA exp : exp.screatedAt >= t)

\* C23: after every statistics computation, total is thisMonth plus the sum
\* of the amounts of the records created before the first instant of the
\* current month.
C23_TotalIsMonthPlusOlder ==
    [][(ev'.k \in DashFetchAwaits /\ ev'.st = "ok")
        => dash'.stats.total =
              FloatAdd(dash'.stats.thisMonth,
                       SumAmounts(CreatedBefore(dash'.expenses, StartOfMonth(now))))]_vars

\* whether every record counted in thisWeek is counted in thisMonth and
\* thisWeek <= thisMonth <= total, after a statistics computation on list q
\* at time t that left st
WeekWithinMonth(st, q, t) ==
    /\ StartOfWeek(t) >= StartOfMonth(t)
    /\ \A j \in DOMAIN q :
            q[j].screatedAt >= StartOfWeek(t) => q[j].screatedAt >= StartOfMonth(t)
    /\ st.thisWeek <= st.thisMonth
    /\ st.thisMonth <= st.total

\* C24: on every current date, the week boundary is not earlier than the
\* month boundary, every record counted in thisWeek is counted in thisMonth,
\* and thisWeek <= thisMonth <= total.
C24_WeekWithinMonth ==
    [][(ev'.k \in DashFetchAwaits /\ ev'.st = "ok")
        => WeekWithinMonth(dash'.stats, dash'.expenses, now)]_vars

\* C24, amended: the same on every current date whose most recent Sunday is
\* in the current month.
C24_WeekWithinMonthWhenSundayInMonth ==
    [][(/\ ev'.k \in DashFetchAwaits /\ ev'.st = "ok"
        /\ WeekStart(now) >= StartOfMonth(now))
        => WeekWithinMonth(dash'.stats, dash'.expenses, now)]_vars

\* the statistics were computed on a date whose most recent Sunday is in the
\* month, with records of this week and records of the month before it
C24_Witness ==
    /\ ev.k \in DashFetchAwaits
    /\ ev.st = "ok"
    /\ WeekStart(now) >= StartOfMonth(now)
    /\ 0 < dash.stats.thisWeek
    /\ dash.stats.thisWeek < dash.stats.thisMonth
    /\ dash.stats.thisMonth < dash.stats.total

\* C27: after every statistics computation, thisWeek is the sum of the amounts
\* of the records created at or after 00:00 of the most recent Sunday, and
\* thisMonth the sum of those created at or after 00:00 of the first day of
\* the month.
C27_WeekAndMonthSums ==
    [][(ev'.k \in DashFetchAwaits /\ ev'.st = "ok")
        => /\ dash'.stats.thisWeek =
                    SumAmounts(CreatedSince(dash'.expenses, WeekStart(now)))
           /\ dash'.stats.thisMonth =
                    SumAmounts(CreatedSince(dash'.expenses, StartOfMonth(now)))]_vars

---------------------------------------------------------------------------
(* The auth screen's submit, under a schedule that runs its continuations *)

\* every await of handleSubmit settles (the service answers or the request
\* fails) and the event loop then runs the continuation
SpecAuthFair ==
    SpecAuth /\ WF_vars(\E i \in DOMAIN calls : AuthHandleSubmitResume(i))

\* C25: every submit of the auth screen, in login or in register mode, accepted
\* or rejected, eventually leaves the screen idle (loading false); it ends with
\* the error message set exactly when it failed; and a new submit clears the
\* previous error in the step that issues its first remote call
C25_SubmitReturnsToIdle ==
    /\ authPage.loading ~> ~authPage.loading
    /\ [][ev'.h = "auth.handleSubmit" =>
            /\ ev'.k = "start" => authPage'.loading /\ authPage'.error = None
            /\ ev'.end = "caught" => ~authPage'.loading /\ authPage'.error # None
            /\ ev'.end = "resolved" => ~authPage'.loading /\ authPage'.error = None]_vars

\* a submit in register mode failed: the screen is idle and shows the message
C25_Witness ==
    /\ ev.h = "auth.handleSubmit" /\ ev.end = "caught"
    /\ ~authPage.isLogin
    /\ ~authPage.loading /\ authPage.error # None

---------------------------------------------------------------------------
(* Ownership of a record across the users of one browser *)

\* a record the signed-in user has created from the dashboard
OwnDocument ==
    [NoDoc EXCEPT !.sid = DocIds[1], !.userId = "a@x", !.amount = parseFloat("5"),
                  !.category = "food", !.description = "Lunch", !.perms = "a@x",
                  !.screatedAt = FirstTime]

\* the dashboard of user a@x, as constructed; the collection holds a record
\* of each user
InitOwner ==
    /\ authModule = "auth.ts"
    /\ client = "app"
    /\ accounts = [e \in Emails |-> IF e = "a@x" THEN "pw1" ELSE "pw2"]
    /\ session = "a@x"
    /\ user = "a@x"
    /\ path = "/"
    /\ layoutPc = "done"
    /\ authPage = AuthPageInit
    /\ dashDraft \in {"page", "layout"}
    /\ dash = DashInit
    /\ expenses = <<>>
    /\ docs = <<OtherUsersDocument, OwnDocument>>
    /\ nextId = 2
    /\ calls = <<>>
    /\ now = FirstTime
    /\ ev = NoEvent

\* in another tab of the browser the user signs out and user u signs in
\* (handleLogout, then the auth screen's handleSubmit): the session is the
\* browser's, this tab's components are left as they are. A request carries
\* the session it was sent with, so the session changes between requests
SwitchSession(u) ==
    /\ u # session
    /\ accounts[u] # None
    /\ \A i \in DOMAIN calls : calls[i].st # "sent"
    /\ session' = u
    /\ ev' = RemoteEvent
    /\ UNCHANGED <<authModule, client, now, dashDraft, expenses, docs, nextId, accounts,
                   user, path, layoutPc, authPage, dash, calls>>

NextOwner ==
    \/ DashOnMount
    \/ \E i \in DOMAIN calls : DashFetchResume(i)
    \/ \E j \in 1..MaxDocs : editExpense(j)
    \/ \E a \in AmountInputs, d \in DescriptionInputs, c \in CategoryInputs : TypeForm(a, d, c)
    \/ DashHandleSubmit
    \/ \E i \in DOMAIN calls : DashHandleSubmitResume(i)
    \/ \E u \in Emails : SwitchSession(u)
    \/ \E i \in DOMAIN calls : RemoteReply(i)

SpecOwner == InitOwner /\ [][NextOwner]_vars

\* C26: the userId of a stored record never changes: no step of the system,
\* an accepted update request included, leaves a record of the collection
\* with another userId than it had, whichever user is signed in
C26_UpdateKeepsOwner ==
    [][\A j \in DOMAIN docs : \A k \in DOMAIN docs' :
            docs'[k].sid = docs[j].sid => docs'[k].userId = docs[j].userId]_vars

---------------------------------------------------------------------------
(* The session restore of the layout against the auth screen's login *)

\* the Sign out button has been pressed and its handler has not ended
LogoutRequested == \E i \in DOMAIN calls : calls[i].k = "layout.handleLogout"

\* C28: once the auth screen has signed the user in (the user store holds the
\* user), every step before a logout is requested leaves the user store
\* non-none and requests no navigation to /auth; this includes the step in
\* which the layout's session restore, started at page load, resolves after
\* the login has completed
C28_LoginSurvivesLateRestore ==
    [][(client = "app" /\ user # None /\ ~LogoutRequested
            /\ ev'.h # "layout.handleLogout")
        => (user' # None /\ ev'.goto # "/auth")]_vars

---------------------------------------------------------------------------
(* The expense store under overlapping calls *)

InitOverlap ==
    /\ authModule = "auth.ts"
    /\ client = "store.overlapping"
    /\ accounts = [e \in Emails |-> IF e = "a@x" THEN "pw1" ELSE None]
    /\ session = "a@x"
    /\ user = "a@x"
    /\ path = "/"
    /\ layoutPc = "done"
    /\ authPage = AuthPageInit
    /\ dashDraft = "page"
    /\ dash = DashInit
    /\ expenses = <<>>
    /\ docs = <<>>
    /\ nextId = 1
    /\ calls = <<>>
    /\ now = FirstTime
    /\ ev = NoEvent

NextOverlap ==
    \/ \E u \in Users : fetchExpenses(u)
    \/ \E u \in Users : addExpense(u, AddAmount)
    \/ \E i \in DOMAIN calls : StoreResume(i)
    \/ \E i \in DOMAIN calls : RemoteReply(i)

SpecOverlap == InitOverlap /\ [][NextOverlap]_vars

\* C29: whatever the order of the calls of fetchExpenses and addExpense and of
\* their answers, no two entries of the shared list have the same $id
C29_NoDuplicateInList ==
    \A j, k \in DOMAIN expenses : j # k => expenses[j].sid # expenses[k].sid

---------------------------------------------------------------------------
(* The dashboard's error flag, checked under SpecData *)

\* C30: when a list fetch of the dashboard succeeds, also after a failed
\* fetch, submit or delete has set the error, the error flag is none and the
\* fetched list, not the error message, is what the dashboard renders
C30_SuccessfulFetchClearsError ==
    [][(ev'.h = "dash.fetchExpenses" /\ ev'.st = "ok")
        => (dash'.mounted /\ ~dash'.loading /\ dash'.error = None)]_vars

=============================================================================
